---- MODULE Spec2Model ----
(***************************************************************************)
(* pip-check (piptools/scripts/check.py): checks a pinned requirements    *)
(* file against the source files it was compiled from.  The model follows *)
(* cli() statement by statement: argument validation and source file      *)
(* derivation, the existing_pins loop over the target records, the        *)
(* parsing of the source files, the marker filter, the reconcile loop and *)
(* the summary with the exit status.                                      *)
(***************************************************************************)
EXTENDS Integers, Sequences, FiniteSets, TLC

VARIABLES
    req_file,          \* the REQ_FILE argument (NoFile when not given)
    source_file,       \* the --source-file option, a tuple of file names
    source_files,      \* the local assigned at check.py:121/123
    quiet,             \* the -q count
    files,             \* the working directory: file name -> its lines
    target,            \* the records parse_requirements yields for req_file / stdin
    pc,                \* position in cli()
    ti,                \* index of the next target record (loop at check.py:175)
    existing_pins,     \* check.py:174
    constraints,       \* check.py:192
    primary_packages,  \* check.py:219
    ci,                \* index of the next source record (loop at check.py:228)
    errors,            \* ErrorCounter.errors
    warnings,          \* ErrorCounter.warnings
    findings,          \* the calls made to ErrorCounter.error / .warning, in order
    logged,            \* what reached the logger
    exception,         \* the uncaught exception that ended the run, if any
    exit_status        \* the process exit status, NoExit while running

vars == <<req_file, source_file, source_files, quiet, files, target, pc, ti,
          existing_pins, constraints, primary_packages, ci, errors, warnings,
          findings, logged, exception, exit_status>>

----------------------------------------------------------------------------
(* Bounds of the model *)

MaxTarget == 2
MaxSource == 2

----------------------------------------------------------------------------
(* File names: a name is the sequence of its dot-separated parts *)

NoFile == <<>>
Stdin == <<"-">>
DEFAULT_REQUIREMENTS_SOURCE_FILE == <<"requirements", "in">>
DEFAULT_REQUIREMENTS_FILE == <<"requirements", "txt">>
SetupPy == <<"setup", "py">>
TmpFile == <<"tmpfile">>
ConstraintsFile == <<"constraints", "txt">>

NoExit == -1
NoName == "<none>"
NoKey == "<nokey>"

\* str.endswith(".in")
EndsWithIn(f) == Len(f) >= 2 /\ f[Len(f)] = "in"

\* req_file.rsplit(".", 1)[0] + ".in"
DeriveSourceName(f) ==
    IF Len(f) >= 2 THEN SubSeq(f, 1, Len(f) - 1) \o <<"in">> ELSE f \o <<"in">>

\* os.path.exists
Exists(f) == f \in DOMAIN files

----------------------------------------------------------------------------
(* Versions and specifiers *)

\* a version is <<major, minor>>, compared numerically part by part
VersionLeq(a, b) == a[1] < b[1] \/ (a[1] = b[1] /\ a[2] <= b[2])

\* one clause <<op, version>> against a version
ClauseContains(c, v) ==
    IF c[1] = "==" THEN v = c[2] ELSE VersionLeq(c[2], v)

\* SpecifierSet.contains: every clause accepts the version
SpecifierContains(spec, v) == \A c \in spec : ClauseContains(c, v)

----------------------------------------------------------------------------
(* Requirement records *)

V190 == <<1, 9>>
V1100 == <<1, 10>>

\* a record of the file under check, as parse_requirements yields it
TargetRecord(n, e, l, s) == [name |-> n, editable |-> e, link |-> l, spec |-> s]

\* a line of a source file; constraint = it was pulled in through "-c"
SourceLine(n, c, s, m) == [name |-> n, constraint |-> c, spec |-> s, markers |-> m]

TargetRecords ==
    {TargetRecord("six", FALSE, FALSE, s) : s \in {{}, {<<"==", V190>>}, {<<"==", V1100>>}}}
    \cup {TargetRecord("Six", FALSE, FALSE, {<<"==", V190>>}),
          TargetRecord("dj", FALSE, FALSE, {<<"==", V190>>}),
          TargetRecord("six", TRUE, TRUE, {}),
          TargetRecord(NoName, TRUE, TRUE, {}),
          TargetRecord(NoName, FALSE, TRUE, {})}

SourceLines ==
    {SourceLine("six", FALSE, {}, "none"),
     SourceLine("six", FALSE, {<<"==", V1100>>}, "true"),
     SourceLine("six", TRUE, {<<">=", V1100>>}, "none"),
     SourceLine("dj", FALSE, {}, "none"),
     SourceLine("dj", FALSE, {<<">=", V1100>>}, "false"),
     SourceLine("dj", TRUE, {<<">=", V1100>>}, "none")}

BoundedSeq(S, n) == UNION {[1..k -> S] : k \in 0..n}

\* str.lower() on the names of the model
Lower(n) == IF n = "Six" THEN "six" ELSE n

\* utils.key_from_req: the canonical comparison key of a name
key_from_req(n) == Lower(n)

\* utils.key_from_ireq: no key for a record without a name
key_from_ireq(ireq) == IF ireq.name = NoName THEN NoKey ELSE key_from_req(ireq.name)

\* utils.is_pinned_requirement: an exact-equality clause is present
is_pinned_requirement(ireq) == \E c \in ireq.spec : c[1] = "=="

\* utils.is_url_requirement
is_url_requirement(ireq) == ireq.link

\* utils.format_requirement: the printed form of a record
format_requirement(ireq) ==
    IF "editable" \in DOMAIN ireq
    THEN IF ireq.editable THEN <<"-e", ireq.name, {}>>
         ELSE IF ireq.link THEN <<"url", ireq.name, {}>>
         ELSE <<"req", Lower(ireq.name), ireq.spec>>
    ELSE <<"req", Lower(ireq.name), ireq.spec, ireq.markers>>

\* check.py format_constraint: the requirement and where it comes from,
\* with the pip flag ("-r " / "-c ") stripped
format_constraint(ireq) ==
    [requirement |-> format_requirement(ireq),
     from |-> [file |-> ireq.comes_from.file, line |-> ireq.comes_from.line]]

\* parse_requirements(f): the records of a source file with their provenance
parse_requirements(f, shown) ==
    [i \in 1..Len(files[f]) |->
        [name |-> files[f][i].name,
         constraint |-> files[f][i].constraint,
         spec |-> files[f][i].spec,
         markers |-> files[f][i].markers,
         comes_from |-> [flag |-> IF files[f][i].constraint THEN "-c" ELSE "-r",
                         file |-> IF files[f][i].constraint THEN ConstraintsFile ELSE shown,
                         line |-> i]]]

----------------------------------------------------------------------------
(* Initial states *)

Running ==
    /\ source_files = <<>>
    /\ pc = "start"
    /\ ti = 1
    /\ existing_pins = <<>>
    /\ constraints = <<>>
    /\ primary_packages = {}
    /\ ci = 1
    /\ errors = 0
    /\ warnings = 0
    /\ findings = <<>>
    /\ logged = <<>>
    /\ exception = "none"
    /\ exit_status = NoExit

\* pip-check run without arguments in a directory holding requirements.txt
\* and requirements.in
InitReconcile ==
    /\ req_file = NoFile
    /\ source_file = <<>>
    /\ quiet = 0
    /\ target \in BoundedSeq(TargetRecords, MaxTarget)
    /\ \E src \in BoundedSeq(SourceLines, MaxSource) :
          files = (DEFAULT_REQUIREMENTS_FILE :> <<>>)
                  @@ (DEFAULT_REQUIREMENTS_SOURCE_FILE :> src)
    /\ Running

FileA == <<"a", "in">>
FileB == <<"b", "in">>

CliContents(f) ==
    IF f = DEFAULT_REQUIREMENTS_SOURCE_FILE THEN <<SourceLine("six", FALSE, {}, "none")>>
    ELSE IF f = SetupPy THEN <<SourceLine("dj", FALSE, {}, "none")>>
    ELSE IF f = FileA THEN <<SourceLine("six", FALSE, {<<"==", V1100>>}, "none")>>
    ELSE IF f = FileB THEN <<SourceLine("dj", TRUE, {<<">=", V1100>>}, "none")>>
    ELSE <<>>

\* every way of calling pip-check in a directory holding some of the files
InitCli ==
    /\ req_file \in {NoFile, Stdin, DEFAULT_REQUIREMENTS_FILE, DEFAULT_REQUIREMENTS_SOURCE_FILE}
    /\ source_file \in {<<>>, <<FileA>>, <<FileA, FileB>>}
    /\ quiet \in {0, 1}
    /\ target \in {<<>>, <<TargetRecord("six", FALSE, FALSE, {<<"==", V190>>})>>,
                   <<TargetRecord("six", FALSE, FALSE, {})>>}
    /\ \E present \in SUBSET {DEFAULT_REQUIREMENTS_FILE, DEFAULT_REQUIREMENTS_SOURCE_FILE,
                              SetupPy, FileA, FileB} :
          files = [f \in present |-> CliContents(f)]
    /\ Running

Init == InitReconcile \/ InitCli

----------------------------------------------------------------------------
(* ErrorCounter *)

ErrorFinding(kind, subject, other) ==
    [severity |-> "error", kind |-> kind, subject |-> subject, other |-> other]

WarningFinding(kind, subject) ==
    [severity |-> "warning", kind |-> kind, subject |-> subject]

CountOf(fs, sev) == Cardinality({i \in 1..Len(fs) : fs[i].severity = sev})

\* ErrorCounter.error / ErrorCounter.warning applied to the findings fs in
\* order: each is forwarded to the logger when verbose, and counted
Record(fs) ==
    /\ errors' = errors + CountOf(fs, "error")
    /\ warnings' = warnings + CountOf(fs, "warning")
    /\ findings' = findings \o fs
    /\ logged' = IF quiet = 0 THEN logged \o fs ELSE logged

----------------------------------------------------------------------------
(* Argument validation and source file derivation *)

\* click.Path(exists=True) on --source-file and on REQ_FILE (dash allowed)
PathsExist ==
    /\ \A i \in 1..Len(source_file) : Exists(source_file[i])
    /\ req_file \in {NoFile, Stdin} \/ Exists(req_file)

\* the requirements file after the "if not req_file" block; NoFile stands
\* for the BadParameter raised there
ResolveReqFile ==
    IF req_file # NoFile THEN req_file
    ELSE IF Len(source_file) > 1 THEN NoFile
    ELSE IF Exists(DEFAULT_REQUIREMENTS_FILE) THEN DEFAULT_REQUIREMENTS_FILE
    ELSE NoFile

UsageError ==
    /\ pc' = "usage_error"
    /\ exception' = "BadParameter"
    /\ exit_status' = 2
    /\ UNCHANGED <<req_file, source_file, source_files>>

Proceed(rf, sf, sfs) ==
    /\ req_file' = rf
    /\ source_file' = sf
    /\ source_files' = sfs
    /\ pc' = "build"
    /\ UNCHANGED <<exception, exit_status>>

ValidateArgs ==
    /\ pc = "start"
    /\ LET rf == ResolveReqFile
           file_name == DeriveSourceName(rf)
       IN  IF ~PathsExist \/ rf = NoFile \/ EndsWithIn(rf) THEN UsageError
           ELSE IF Len(source_file) # 0 THEN Proceed(rf, source_file, source_files)
           ELSE IF rf = Stdin THEN
                IF Exists(DEFAULT_REQUIREMENTS_SOURCE_FILE)
                THEN Proceed(rf, source_file, <<DEFAULT_REQUIREMENTS_SOURCE_FILE>>)
                ELSE IF Exists(SetupPy)
                THEN Proceed(rf, source_file, <<SetupPy>>)
                ELSE UsageError
           ELSE IF Exists(file_name) THEN Proceed(rf, <<file_name>>, source_files)
           ELSE IF Exists(SetupPy) THEN Proceed(rf, <<SetupPy>>, source_files)
           ELSE UsageError
    /\ UNCHANGED <<quiet, files, target, ti, existing_pins, constraints,
                   primary_packages, ci, errors, warnings, findings, logged>>

----------------------------------------------------------------------------
(* The existing_pins loop *)

\* the findings one target record gives, in the order they are recorded
PinFindings(ireq, pins) ==
    (IF ireq.editable /\ ireq.name # NoName
     THEN <<WarningFinding("editable", format_requirement(ireq))>> ELSE <<>>)
    \o (IF ~is_pinned_requirement(ireq) /\ ~is_url_requirement(ireq)
        THEN <<WarningFinding("unpinned", format_requirement(ireq))>> ELSE <<>>)
    \o (IF key_from_ireq(ireq) \in DOMAIN pins
        THEN <<ErrorFinding("duplicate", format_requirement(ireq),
                            format_requirement(pins[key_from_ireq(ireq)]))>>
        ELSE <<>>)

\* first-write-wins: a key already in the map keeps its entry
StorePinKeepFirst(pins, key, ireq) ==
    IF key \in DOMAIN pins THEN pins
    ELSE [k \in DOMAIN pins \cup {key} |-> IF k = key THEN ireq ELSE pins[k]]

\* existing_pins[key] = ireq
StorePin(pins, key, ireq) ==
    [k \in DOMAIN pins \cup {key} |-> IF k = key THEN ireq ELSE pins[k]]

\* the "elif ireq.req is None: continue" branch, reached only by a record
\* that is not editable
SkipsTarget(ireq) == ~ireq.editable /\ ireq.name = NoName

\* one iteration of "for ireq in ireqs"
BuildPin ==
    /\ pc = "build"
    /\ ti <= Len(target)
    /\ LET ireq == target[ti] IN
       IF SkipsTarget(ireq)
       THEN UNCHANGED <<existing_pins, errors, warnings, findings, logged>>
       ELSE /\ Record(PinFindings(ireq, existing_pins))
            /\ existing_pins' = StorePin(existing_pins, key_from_ireq(ireq), ireq)
    /\ ti' = ti + 1
    /\ UNCHANGED <<req_file, source_file, source_files, quiet, files, target, pc,
                   constraints, primary_packages, ci, exception, exit_status>>

----------------------------------------------------------------------------
(* Parsing the source files *)

\* what the loop over source_file reads from one file: install_requires
\* of a setup.py goes through a temporary file
ReadSource(f) ==
    IF f = SetupPy THEN parse_requirements(f, TmpFile) ELSE parse_requirements(f, f)

RECURSIVE ReadSources(_)
ReadSources(fs) ==
    IF fs = <<>> THEN <<>> ELSE ReadSource(Head(fs)) \o ReadSources(Tail(fs))

\* the keys of the records that are not constraints
PrimaryPackages(reqs) ==
    {key_from_ireq(reqs[i]) : i \in {j \in 1..Len(reqs) : ~reqs[j].constraint}}

ParseSources ==
    /\ pc = "build"
    /\ ti > Len(target)
    /\ constraints' = ReadSources(source_file)
    /\ primary_packages' = PrimaryPackages(constraints')
    /\ pc' = "filter"
    /\ UNCHANGED <<req_file, source_file, source_files, quiet, files, target, ti,
                   existing_pins, ci, errors, warnings, findings, logged,
                   exception, exit_status>>

\* the marker is not looked at
MarkerAppliesAlways(req) == req.markers \in {"none", "true", "false"}

\* req.markers is None or req.markers.evaluate()
MarkerApplies(req) == req.markers # "false"

RECURSIVE FilterSeq(_)
FilterSeq(reqs) ==
    IF reqs = <<>> THEN <<>>
    ELSE (IF MarkerApplies(Head(reqs)) THEN <<Head(reqs)>> ELSE <<>>)
         \o FilterSeq(Tail(reqs))

FilterMarkers ==
    /\ pc = "filter"
    /\ constraints' = FilterSeq(constraints)
    /\ pc' = "reconcile"
    /\ UNCHANGED <<req_file, source_file, source_files, quiet, files, target, ti,
                   existing_pins, primary_packages, ci, errors, warnings,
                   findings, logged, exception, exit_status>>

----------------------------------------------------------------------------
(* The reconcile loop *)

\* an uncaught exception ends the process with a traceback and status 1
Raise(exc) ==
    /\ pc' = "crashed"
    /\ exception' = exc
    /\ exit_status' = 1
    /\ UNCHANGED <<ci, errors, warnings, findings, logged>>

Continue(fs) ==
    /\ Record(fs)
    /\ ci' = ci + 1
    /\ UNCHANGED <<pc, exception, exit_status>>

Missing(ireq, pins) == ~ireq.constraint /\ key_from_ireq(ireq) \notin DOMAIN pins

\* the error of the comparison of the pin's version with the specifier
Incompatible(ireq, pin, version) ==
    IF ~SpecifierContains(ireq.spec, version)
    THEN <<ErrorFinding("incompatible", format_requirement(pin), format_constraint(ireq))>>
    ELSE <<>>

\* one iteration of "for ireq in constraints"
Reconcile ==
    /\ pc = "reconcile"
    /\ ci <= Len(constraints)
    /\ LET ireq == constraints[ci]
           key == key_from_ireq(ireq)
       IN  IF Missing(ireq, existing_pins)
           THEN Continue(<<ErrorFinding("missing", format_constraint(ireq), <<>>)>>)
           ELSE IF key \notin DOMAIN existing_pins THEN Raise("KeyError")
           ELSE IF ireq.spec = {} THEN Continue(<<>>)
           ELSE IF existing_pins[key].spec = {} THEN Raise("StopIteration")
           ELSE \E c \in existing_pins[key].spec :
                    Continue(Incompatible(ireq, existing_pins[key], c[2]))
    /\ UNCHANGED <<req_file, source_file, source_files, quiet, files, target, ti,
                   existing_pins, constraints, primary_packages>>

\* the summary and sys.exit
Summary ==
    /\ pc = "reconcile"
    /\ ci > Len(constraints)
    /\ pc' = "done"
    /\ exit_status' = IF errors # 0 THEN 1 ELSE 0
    /\ logged' = logged \o
         (IF errors # 0 \/ warnings # 0
          THEN <<[severity |-> "info", kind |-> "summary",
                  subject |-> <<errors, warnings, req_file>>],
                 [severity |-> "info", kind |-> "fix",
                  subject |-> <<"pip-compile">>]>>
          ELSE <<[severity |-> "debug", kind |-> "summary",
                  subject |-> <<errors, warnings, req_file>>]>>)
    /\ UNCHANGED <<req_file, source_file, source_files, quiet, files, target, ti,
                   existing_pins, constraints, primary_packages, ci, errors,
                   warnings, findings, exception>>

Next ==
    \/ ValidateArgs
    \/ BuildPin
    \/ ParseSources
    \/ FilterMarkers
    \/ Reconcile
    \/ Summary

Spec == Init /\ [][Next]_vars

----------------------------------------------------------------------------
(* Vocabulary of the properties *)

\* the run got past argument validation and has ended
Ended == pc \in {"done", "crashed"}

\* the marker filter has run: constraints holds the filtered source records
Filtered == pc \in {"reconcile", "done", "crashed"}

\* the merged, unfiltered source records
AllSources == ReadSources(source_file)

\* the target records the existing_pins loop has been through
Processed == IF pc = "start" THEN {} ELSE 1..(ti - 1)

Named(i) == target[i].name # NoName

TargetKey(i) == key_from_ireq(target[i])

Max(S) == CHOOSE x \in S : \A y \in S : y <= x

\* the findings of one kind, in order
OfKind(kind) == SelectSeq(findings, LAMBDA f : f.kind = kind)

HowMany(kind, P(_)) ==
    Cardinality({i \in 1..Len(findings) : findings[i].kind = kind /\ P(findings[i])})

\* a source record that must be reported missing
IsMissing(ireq) == ~ireq.constraint /\ key_from_ireq(ireq) \notin DOMAIN existing_pins

----------------------------------------------------------------------------
(* C1: once the run is over, each key of the pins map that is not a       *)
(* primary key has exactly one "is present but not required" warning, and *)
(* these warnings are counted as warnings, never as errors.               *)
C1_OrphanWarning ==
    pc = "done" =>
        /\ \A k \in (DOMAIN existing_pins \ primary_packages) \ {NoKey} :
              HowMany("orphan",
                      LAMBDA f : f.subject = format_requirement(existing_pins[k])
                                 /\ f.severity = "warning") = 1
        /\ warnings >= Cardinality((DOMAIN existing_pins \ primary_packages) \ {NoKey})

(* C2: when the run has ended, every filtered source record that is not a *)
(* constraint and has no pin has exactly one "missing requirement" error, *)
(* no incompatibility error, and the exit status is 1.                    *)
C2_MissingRequirement ==
    (Ended /\ Filtered) =>
        \A i \in 1..Len(constraints) :
            IsMissing(constraints[i]) =>
                /\ HowMany("missing",
                           LAMBDA f : f.subject = format_constraint(constraints[i])) = 1
                /\ HowMany("incompatible",
                           LAMBDA f : f.other = format_constraint(constraints[i])) = 0
                /\ exit_status = 1

(* C3: when the run has ended, a filtered source record with a specifier  *)
(* whose pin is a single == clause has an "incompatible requirements"     *)
(* error exactly when the pinned version is outside its specifier.        *)
C3_IncompatibleRequirement ==
    Ended =>
        \A i \in 1..Len(constraints) :
            LET ireq == constraints[i]
                key == key_from_ireq(ireq)
            IN  (ireq.spec # {} /\ key \in DOMAIN existing_pins) =>
                    \A v \in {V190, V1100} :
                        existing_pins[key].spec = {<<"==", v>>} =>
                            ((HowMany("incompatible",
                                 LAMBDA f : /\ f.other = format_constraint(ireq)
                                            /\ f.subject = format_requirement(existing_pins[key]))
                               >= 1)
                             <=> ~SpecifierContains(ireq.spec, v))

\* the target records with a name that repeat the key of an earlier one
RepeatsKey(i) ==
    Named(i) /\ \E j \in 1..(i - 1) : Named(j) /\ TargetKey(j) = TargetKey(i)

\* the last target record with key k among the first n
LastWithKey(k, n) == Max({j \in 1..n : Named(j) /\ TargetKey(j) = k})

\* the duplicate errors the first n target records call for
RECURSIVE ExpectedDuplicates(_)
ExpectedDuplicates(n) ==
    IF n = 0 THEN <<>>
    ELSE ExpectedDuplicates(n - 1)
         \o (IF RepeatsKey(n)
             THEN <<[severity |-> "error", kind |-> "duplicate",
                     subject |-> format_requirement(target[n]),
                     other |-> format_requirement(
                                   target[LastWithKey(TargetKey(n), n - 1)])]>>
             ELSE <<>>)

\* the duplicate errors recorded about records with a name
NamedDuplicates ==
    SelectSeq(findings, LAMBDA f : f.kind = "duplicate" /\ f.subject[2] # NoName)

NamedProcessed == {i \in Processed : Named(i)}

(* C4: the duplicate errors are exactly one per named target record that  *)
(* repeats a key, each naming the entry held for the key at that moment;  *)
(* the pins map holds for every key the last record read with it (k       *)
(* occurrences, k-1 errors), and an incompatibility is reported against   *)
(* that last record.                                                      *)
C4_DuplicateLastWriteWins ==
    /\ NamedDuplicates = ExpectedDuplicates(Cardinality(Processed))
    /\ \A i \in NamedProcessed :
          /\ TargetKey(i) \in DOMAIN existing_pins
          /\ existing_pins[TargetKey(i)] = target[LastWithKey(TargetKey(i), ti - 1)]
    /\ \A k \in DOMAIN existing_pins \ {NoKey} :
          \E i \in NamedProcessed : TargetKey(i) = k
    /\ Len(NamedDuplicates) =
          Cardinality(NamedProcessed) - Cardinality(DOMAIN existing_pins \ {NoKey})
    /\ \A n \in 1..Len(findings) :
          findings[n].kind = "incompatible" =>
              \E i \in 1..Len(constraints) :
                  /\ findings[n].other = format_constraint(constraints[i])
                  /\ findings[n].subject = format_requirement(
                        target[LastWithKey(key_from_ireq(constraints[i]), Len(target))])

\* two different pins for one key, and the source compared with the later
C4_Witness ==
    /\ pc = "done"
    /\ Len(target) = 2
    /\ target[1].spec = {<<"==", V1100>>}
    /\ target[2].spec = {<<"==", V190>>}
    /\ TargetKey(1) = TargetKey(2)
    /\ Len(NamedDuplicates) = 1
    /\ Len(OfKind("incompatible")) = 1
    /\ existing_pins[TargetKey(1)] = target[2]

(* C5: a run that got past argument validation ends with exit status 1    *)
(* when errors were counted and with exit status 0 when none were.        *)
C5_ExitStatus ==
    Ended =>
        /\ exit_status \in {0, 1}
        /\ exit_status = 1 <=> errors > 0

(* C6: the reconcile loop steps over a constraint-only record whose key   *)
(* has no pin: nothing is recorded, the counters stay, the loop goes on.  *)
C6_ConstraintWithoutPinSkipped ==
    [][(/\ pc = "reconcile"
        /\ ci <= Len(constraints)
        /\ constraints[ci].constraint
        /\ key_from_ireq(constraints[ci]) \notin DOMAIN existing_pins)
       => (/\ pc' = "reconcile"
           /\ ci' = ci + 1
           /\ findings' = findings
           /\ errors' = errors
           /\ warnings' = warnings)]_vars

(* C7: no run stops at a source record that has a pin, whatever the pin   *)
(* looks like (no version clause, URL); only a normal end follows.        *)
C7_FindingsNeverAbort ==
    (pc = "crashed" /\ ci <= Len(constraints)) =>
        key_from_ireq(constraints[ci]) \notin DOMAIN existing_pins

\* the source records whose marker is absent or evaluates true
KeptIdx == {i \in 1..Len(AllSources) : AllSources[i].markers \in {"none", "true"}}

(* C8: a source record whose marker evaluates false has no finding of any *)
(* kind, its key is a primary key all the same when it is not a           *)
(* constraint, and the other records are all kept, in their order.        *)
C8_MarkerFiltering ==
    pc \notin {"start", "usage_error", "build"} =>
        /\ \A k \in primary_packages \cup {key_from_ireq(AllSources[i]) :
                                             i \in 1..Len(AllSources)} :
              k \in primary_packages <=>
                  \E i \in 1..Len(AllSources) :
                      ~AllSources[i].constraint /\ key_from_ireq(AllSources[i]) = k
        /\ Filtered =>
              /\ Len(constraints) = Cardinality(KeptIdx)
              /\ \A i \in KeptIdx :
                    constraints[Cardinality({j \in KeptIdx : j <= i})] = AllSources[i]
        /\ \A i \in 1..Len(AllSources) :
              AllSources[i].markers = "false" =>
                  /\ HowMany("missing",
                             LAMBDA f : f.subject = format_constraint(AllSources[i])) = 0
                  /\ HowMany("incompatible",
                             LAMBDA f : f.other = format_constraint(AllSources[i])) = 0

\* a primary record with a false marker and no pin, next to a record kept
C8_Witness ==
    /\ pc = "done"
    /\ Len(AllSources) = 2
    /\ Len(constraints) = 1
    /\ \E i \in 1..2 :
          /\ AllSources[i].markers = "false"
          /\ ~AllSources[i].constraint
          /\ key_from_ireq(AllSources[i]) \notin DOMAIN existing_pins
          /\ key_from_ireq(AllSources[i]) \in primary_packages
    /\ findings = <<>>

(* C9: reading the target from stdin without --source-file reconciles the *)
(* records of requirements.in when it exists, else those of setup.py,     *)
(* else stops with a usage error (status 2) and no finding.               *)
C9_StdinSourceSelection ==
    (req_file = Stdin /\ source_file = <<>> /\ pc # "start") =>
        /\ pc = "usage_error" <=>
              (~Exists(DEFAULT_REQUIREMENTS_SOURCE_FILE) /\ ~Exists(SetupPy))
        /\ pc = "usage_error" => (exit_status = 2 /\ findings = <<>>)
        /\ pc = "filter" =>
              constraints = ReadSource(IF Exists(DEFAULT_REQUIREMENTS_SOURCE_FILE)
                                       THEN DEFAULT_REQUIREMENTS_SOURCE_FILE
                                       ELSE SetupPy)

(* C10: a target record without a name is passed over: the pins map never *)
(* holds such a record and no duplicate error mentions one; an editable   *)
(* record with a name has its "is editable" warning.                      *)
C10_NamelessTargetSkipped ==
    /\ \A k \in DOMAIN existing_pins : existing_pins[k].name # NoName
    /\ \A i \in 1..Len(findings) :
          findings[i].kind \in {"editable", "unpinned", "duplicate"}
              => findings[i].subject[2] # NoName
    /\ \A i \in Processed :
          (target[i].editable /\ Named(i)) =>
              HowMany("editable",
                      LAMBDA f : f.subject = format_requirement(target[i])) >= 1

====
